---- MODULE Spec2Model ----
(***************************************************************************)
(* Model of the prompt engine of src/src/lib/Prompt.ts (class PromptClass) *)
(* and of the generator it calls (src/src/lib/Generator.ts).               *)
(*                                                                         *)
(* Text is a sequence of tokens.  A token is a string: either a            *)
(* placeholder-shaped piece of text ("{{a}}", "{{ a }}") or any other      *)
(* piece of text.  The text a sequence stands for is the concatenation of  *)
(* its tokens.  JavaScript objects are sequences of [k, v] entries in      *)
(* insertion order.  An optional field is a sequence of length 0 or 1.     *)
(***************************************************************************)
EXTENDS Integers, Sequences, FiniteSets, TLC

VARIABLES heap, calls, backendLog, ops, last

state == <<heap, calls, backendLog, ops, last>>

(***************************************************************************)
(* Bounds                                                                  *)
(***************************************************************************)
\* the number of API calls (constructor, text, defaults, schema, using, vars,
\* fromJSON, generate) of a behaviour
MaxOps == 4

(***************************************************************************)
(* Small helpers                                                           *)
(***************************************************************************)
None == <<>>
Some(x) == <<x>>

RECURSIVE Concat(_)
Concat(toks) == IF toks = <<>> THEN "" ELSE Head(toks) \o Concat(Tail(toks))

RECURSIVE Join(_, _)
Join(strs, sep) ==
  IF strs = <<>> THEN ""
  ELSE IF Len(strs) = 1 THEN strs[1]
  ELSE strs[1] \o sep \o Join(Tail(strs), sep)

Entry(key, value) == [k |-> key, v |-> value]
Keys(obj) == {obj[i].k : i \in 1..Len(obj)}
Get(obj, key) == obj[CHOOSE i \in 1..Len(obj) : obj[i].k = key].v

\* obj[key] = value on a JavaScript object: an existing key keeps its place
Put(obj, key, value) ==
  IF key \in Keys(obj)
  THEN [i \in 1..Len(obj) |-> IF obj[i].k = key THEN Entry(key, value) ELSE obj[i]]
  ELSE Append(obj, Entry(key, value))

\* {...target, ...source}
RECURSIVE Spread(_, _)
Spread(target, source) ==
  IF source = <<>> THEN target
  ELSE Spread(Put(target, Head(source).k, Head(source).v), Tail(source))

(***************************************************************************)
(* Values bound to template variables, and their textual form              *)
(***************************************************************************)
Str(s) == [t |-> "str", s |-> s]
Num(n) == [t |-> "num", n |-> n]

\* String(value), as String.prototype.replace applies it to its argument
ToText(value) == IF value.t = "num" THEN ToString(value.n) ELSE value.s

(***************************************************************************)
(* Placeholders: the regular expressions of resolvePrompt                  *)
(***************************************************************************)
Names == {"a", "b", "num", "name", "value"}

PH(n) == "{{" \o n \o "}}"
PHs(n) == "{{ " \o n \o " }}"

\* new RegExp(`{{\\s*${key}\\s*}}`) matches the token
MatchesKey(tok, key) == tok \in {PH(key), PHs(key)}

\* /{{\s*[\w]+\s*}}/ matches the token
MatchesAny(tok) == \E n \in Names : MatchesKey(tok, n)

\* the replacement text: "$&" in the replacement string inserts the match
Substitution(repl, matched) == IF repl = "$&" THEN matched ELSE repl

\* prompt.replace(regex, value) with the g flag
ReplaceAll(prompt, key, value) ==
  [i \in 1..Len(prompt) |->
     IF MatchesKey(prompt[i], key)
     THEN Substitution(ToText(value), prompt[i])
     ELSE prompt[i]]

\* the for loop over Object.entries(allVars)
RECURSIVE ReplaceEntries(_, _)
ReplaceEntries(prompt, entries) ==
  IF entries = <<>> THEN prompt
  ELSE ReplaceEntries(ReplaceAll(prompt, Head(entries).k, Head(entries).v),
                      Tail(entries))

\* prompt.match(/{{[\w]+}}/g): white space inside the braces is not matched
MatchAllTight(prompt) ==
  LET tight(tok) == \E n \in Names : tok = PH(n) IN SelectSeq(prompt, tight)

\* prompt.match(/{{\s*[\w]+\s*}}/g): every match, in order
MatchAll(prompt) == SelectSeq(prompt, MatchesAny)

(***************************************************************************)
(* JSON values and JSON.stringify                                          *)
(***************************************************************************)
JStr(s) == [t |-> "string", s |-> s]
JObj(fields) == [t |-> "object", fields |-> fields]
JArr(elems) == [t |-> "array", elems |-> elems]

Quote(s) == "\"" \o s \o "\""

\* JSON.stringify(value): no white space
RECURSIVE stringify(_)
stringify(value) ==
  CASE value.t = "string" -> Quote(value.s)
    [] value.t = "object" ->
         "{" \o Join([i \in 1..Len(value.fields) |->
                        Quote(value.fields[i].k) \o ":"
                          \o stringify(value.fields[i].v)], ",") \o "}"
    [] value.t = "array" ->
         "[" \o Join([i \in 1..Len(value.elems) |-> stringify(value.elems[i])],
                     ",") \o "]"

\* JSON.stringify(value, null, 2): members on their own lines, indented by 2
RECURSIVE stringifyIndent(_, _)
stringifyIndent(value, indent) ==
  CASE value.t = "string" -> Quote(value.s)
    [] value.t = "object" ->
         IF value.fields = <<>> THEN "{}"
         ELSE "{\n"
              \o Join([i \in 1..Len(value.fields) |->
                         indent \o "  " \o Quote(value.fields[i].k) \o ": "
                           \o stringifyIndent(value.fields[i].v, indent \o "  ")],
                      ",\n")
              \o "\n" \o indent \o "}"
    [] value.t = "array" ->
         IF value.elems = <<>> THEN "[]"
         ELSE "[\n"
              \o Join([i \in 1..Len(value.elems) |->
                         indent \o "  "
                           \o stringifyIndent(value.elems[i], indent \o "  ")],
                      ",\n")
              \o "\n" \o indent \o "]"

(***************************************************************************)
(* Schemas                                                                 *)
(***************************************************************************)
TString == [type |-> "string"]
TObject(props, req) == [type |-> "object", properties |-> props, required |-> req]
TArray(items) == [type |-> "array", items |-> items]

RECURSIVE describeSchema(_)
describeSchema(s) ==
  CASE s.type = "object" ->
         JObj([i \in 1..Len(s.properties) |->
                 Entry(s.properties[i].k, describeSchema(s.properties[i].v))])
    [] s.type = "array" ->
         IF s.items.type = "object"
         THEN JArr(<<describeSchema(s.items)>>)
         ELSE JArr(<<JStr(s.items.type)>>)
    [] OTHER -> JStr(s.type)

(***************************************************************************)
(* resolvePrompt                                                           *)
(***************************************************************************)
\* vars || this._vars, when the pre-bound set wins over the argument
LayerPreboundFirst(e, varsArg) == IF e.vars # None THEN e.vars ELSE varsArg

\* vars || this._vars
Layer(e, varsArg) == IF varsArg # None THEN varsArg ELSE e.vars

\* {...this._defaults, ...(vars || this._vars)}
AllVars(e, varsArg) ==
  LET layer == Layer(e, varsArg)
  IN  Spread(Spread(<<>>, e.defaults), IF layer = None THEN <<>> ELSE layer[1])

\* this._text || ''
TextOf(e) == IF e.text = None THEN <<>> ELSE e.text[1]

Directive(format) ==
  " Please provide a " \o format \o " response with the following structure:\n"

MissingPrefix == "Missing template variables or default values: "

resolvePrompt(e, varsArg) ==
  LET allVars == AllVars(e, varsArg)
      prompt == ReplaceEntries(TextOf(e), allVars)
      unboundVars == MatchAll(prompt)
  IN  IF unboundVars # <<>>
      THEN [kind |-> "MissingError",
            text |-> MissingPrefix \o Join(unboundVars, ", "),
            unbound |-> unboundVars, allVars |-> allVars, prompt |-> prompt]
      ELSE [kind |-> "text",
            text |-> IF e.schema # None
                     THEN Concat(prompt) \o Directive(e.format)
                            \o stringifyIndent(describeSchema(e.schema[1]), "")
                     ELSE Concat(prompt),
            unbound |-> <<>>, allVars |-> allVars, prompt |-> prompt]

(***************************************************************************)
(* Ajv: compile and the compiled validate function                         *)
(***************************************************************************)
JSONTypes == {"string", "number", "integer", "boolean", "object", "array", "null"}

\* new Ajv().compile(schema) returns (TRUE) or throws "schema is invalid"
RECURSIVE AjvCompiles(_)
AjvCompiles(s) ==
  /\ s.type \in JSONTypes
  /\ s.type = "object" =>
       \A i \in 1..Len(s.properties) : AjvCompiles(s.properties[i].v)
  /\ s.type = "array" => AjvCompiles(s.items)

(***************************************************************************)
(* PromptClass: constructor, toJSON                                        *)
(***************************************************************************)
NoGenerator == 0
DefaultFormat == "json"

PromptOptions(g, t, d, s, f) ==
  [generator |-> g, text |-> t, defaults |-> d, schema |-> s, format |-> f]

\* the constructor throws when options.schema does not compile
constructorThrows(options) ==
  options.schema # None /\ ~AjvCompiles(options.schema[1])

constructor(options) ==
  [generator |-> options.generator,
   text |-> options.text,
   defaults |-> IF options.defaults = None THEN <<>> ELSE options.defaults[1],
   schema |-> options.schema,
   format |-> IF options.format = None THEN DefaultFormat ELSE options.format[1],
   validator |-> options.schema,
   vars |-> None]

toJSON(e) == PromptOptions(NoGenerator, e.text, Some(e.defaults), e.schema, None)

\* the engine vars(v) returns, when the constructor does not throw
varsEngine(e, v) == [constructor(toJSON(e)) EXCEPT !.vars = Some(v)]

(***************************************************************************)
(* Inputs                                                                  *)
(***************************************************************************)
Templates ==
  { <<"plain">>,
    <<"Hello, ", "{{value}}", ".">>,
    <<"List ", "{{num}}", " books by ", "{{name}}", ".">>,
    <<"{{a}}", " ", "{{a}}">>,
    <<"{{b}}", " and ", "{{ a }}">> }

Bindings ==
  { <<>>,
    <<Entry("a", Str("x"))>>,
    <<Entry("a", Str("y")), Entry("b", Num(3))>>,
    <<Entry("a", Str("{{b}}")), Entry("b", Str("x"))>>,
    <<Entry("b", Str("x")), Entry("a", Str("{{b}}"))>>,
    <<Entry("a", Str("$&"))>>,
    <<Entry("num", Num(3))>>,
    <<Entry("name", Str("George Orwell"))>>,
    <<Entry("value", Str("x")), Entry("num", Num(5))>> }

Book ==
  TObject(<<Entry("title", TString), Entry("year", TString)>>, <<"title", "year">>)

Schemas ==
  { TString,
    TObject(<<Entry("result", TString)>>, <<"result">>),
    TArray(Book),
    TArray(TArray(TString)),
    TObject(<<Entry("tags", TArray(TString)), Entry("book", Book)>>, <<>>) }

BadSchema == [type |-> "strin"]

Formats == {"csv"}

Opt(S) == {None} \cup {Some(x) : x \in S}

(***************************************************************************)
(* The specification of resolvePrompt as a function of the configuration:  *)
(* one engine, built by the constructor or derived by vars(), is resolved. *)
(***************************************************************************)
NoOp == [op |-> "none"]

ResolveEngines ==
  LET built == {constructor(PromptOptions(NoGenerator, t, Some(d), s, f)) :
                  t \in Opt(Templates), d \in Bindings,
                  s \in Opt(Schemas), f \in Opt(Formats)}
  IN  built \cup {varsEngine(e, v) : e \in built, v \in Bindings}

InitResolve ==
  /\ heap \in {<<e>> : e \in ResolveEngines}
  /\ calls = <<>>
  /\ backendLog = <<>>
  /\ ops = 0
  /\ last = NoOp

\* resolvePrompt(vars) with an explicit argument
resolveWith(id, v) ==
  /\ last' = [op |-> "resolve", id |-> id, e |-> heap[id], arg |-> Some(v),
              res |-> resolvePrompt(heap[id], Some(v))]
  /\ UNCHANGED <<heap, calls, backendLog, ops>>

\* toString(): resolvePrompt()
toString(id) ==
  /\ last' = [op |-> "resolve", id |-> id, e |-> heap[id], arg |-> None,
              res |-> resolvePrompt(heap[id], None)]
  /\ UNCHANGED <<heap, calls, backendLog, ops>>

NextResolve ==
  \/ \E v \in Bindings : resolveWith(1, v)
  \/ toString(1)

SpecResolve == InitResolve /\ [][NextResolve]_state

(***************************************************************************)
(* JSON.parse and the validate function Ajv compiles                       *)
(***************************************************************************)
\* the values the text of a reply can decode to
Data ==
  { JStr("hi"),
    JObj(<<>>),
    JObj(<<Entry("title", JStr("x"))>>),
    JObj(<<Entry("title", JStr("x")), Entry("year", JStr("y"))>>) }

\* JSON.parse(text): the value text is the JSON text of, or a SyntaxError
JSONparse(raw) ==
  IF \E d \in Data : stringify(d) = raw
  THEN [ok |-> TRUE, value |-> CHOOSE d \in Data : stringify(d) = raw]
  ELSE [ok |-> FALSE]

RECURSIVE Flatten(_)
Flatten(seqs) == IF seqs = <<>> THEN <<>> ELSE Head(seqs) \o Flatten(Tail(seqs))

\* every constraint of the schema the value violates, in the order Ajv
\* evaluates them: type, required, properties / items
RECURSIVE Violations(_, _)
Violations(s, d) ==
  IF d.t # s.type THEN <<"must be " \o s.type>>
  ELSE CASE s.type = "object" ->
              LET missing(n) == n \notin Keys(d.fields)
                  msg(n) == "must have required property '" \o n \o "'"
                  absent == SelectSeq(s.required, missing)
              IN  [i \in 1..Len(absent) |-> msg(absent[i])]
                  \o Flatten([i \in 1..Len(s.properties) |->
                       IF s.properties[i].k \in Keys(d.fields)
                       THEN Violations(s.properties[i].v,
                                       Get(d.fields, s.properties[i].k))
                       ELSE <<>>])
         [] s.type = "array" ->
              Flatten([i \in 1..Len(d.elems) |-> Violations(s.items, d.elems[i])])
         [] OTHER -> <<>>

\* validator.errors after validator(data) of new Ajv(): allErrors is false,
\* validation returns after the first error
AjvErrors(s, d) ==
  IF Violations(s, d) = <<>> THEN <<>> ELSE <<Head(Violations(s, d))>>

\* validate(data): TRUE, or the error it throws
validate(e, data) ==
  IF e.validator = None
  THEN [kind |-> "NoValidatorError", text |-> "No validator set up."]
  ELSE LET errors == AjvErrors(e.validator[1], data)
       IN  IF errors # <<>>
           THEN [kind |-> "InvalidDataError",
                 text |-> "Invalid data: " \o Join(errors, ", "),
                 errors |-> errors]
           ELSE [kind |-> "valid"]

(***************************************************************************)
(* generate: the part before the await and the part after it               *)
(***************************************************************************)
NoGeneratorText ==
  "No generator was provided yet. Use prompt.using(generator) to set a generator or use Generator.prompt() to create new prompts."

\* generate when the prompt is resolved before the generator is looked at
generateStartResolveFirst(e, arg) ==
  LET r == resolvePrompt(e, arg)
  IN  IF r.kind = "MissingError"
      THEN [kind |-> "MissingError", text |-> r.text]
      ELSE IF e.generator = NoGenerator
      THEN [kind |-> "NoGeneratorError", text |-> NoGeneratorText]
      ELSE [kind |-> "execute", text |-> r.text]

\* generate when the result of resolvePrompt is sent whatever it is
generateStartUnchecked(e, arg) ==
  IF e.generator = NoGenerator
  THEN [kind |-> "NoGeneratorError", text |-> NoGeneratorText]
  ELSE [kind |-> "execute", text |-> resolvePrompt(e, arg).text]

\* generate up to the call of this._generator.execute(prompt)
generateStart(e, arg) ==
  IF e.generator = NoGenerator
  THEN [kind |-> "NoGeneratorError", text |-> NoGeneratorText]
  ELSE LET r == resolvePrompt(e, arg)
       IN  IF r.kind = "MissingError"
           THEN [kind |-> "MissingError", text |-> r.text]
           ELSE [kind |-> "execute", text |-> r.text]

\* generate after execute has returned generatedText
generateResume(e, generatedText) ==
  IF e.schema # None /\ e.validator # None
  THEN LET parsed == JSONparse(generatedText)
       IN  IF ~parsed.ok
           THEN [kind |-> "SyntaxError", text |-> "Unexpected token in JSON"]
           ELSE LET v == validate(e, parsed.value)
                IN  IF v.kind = "valid"
                    THEN [kind |-> "value", value |-> parsed.value]
                    ELSE v
  ELSE [kind |-> "text", text |-> generatedText]

(***************************************************************************)
(* The engine API as a state machine.  heap[id] is the PromptClass object  *)
(* the reference id points to; calls are the generate() calls, backendLog  *)
(* the calls of Generator.execute with the reply each got; last is the     *)
(* last call of the constructor, a setter, toString, vars or fromJSON,     *)
(* with what it returned; ops counts the API calls made.                   *)
(***************************************************************************)
Generators == {1}

Hello == <<"Hello, ", "{{value}}", ".">>

ApiTexts == { <<"plain">> }

ApiBindings == { <<Entry("value", Str("x"))>> }

ApiSchemas == { TString, BadSchema }

ApiOptions ==
  { PromptOptions(NoGenerator, Some(Hello), None, None, None),
    PromptOptions(1, Some(Hello), Some(<<Entry("value", Str("y"))>>),
                  Some(Book), Some("csv")),
    PromptOptions(1, Some(<<"plain">>), None, None, None),
    PromptOptions(NoGenerator, None, None, Some(BadSchema), None) }

\* the texts execute can return
Replies ==
  { "not json", "{}", "{\"title\":\"x\",\"year\":\"y\"}" }

Ids == 1..Len(heap)

Init ==
  /\ heap = <<>>
  /\ calls = <<>>
  /\ backendLog = <<>>
  /\ ops = 0
  /\ last = NoOp

\* new PromptClass(options), Prompt(options), generator.prompt(options)
create(options) ==
  /\ ops < MaxOps
  /\ IF constructorThrows(options)
     THEN /\ heap' = heap
          /\ last' = [op |-> "new", ok |-> FALSE]
     ELSE /\ heap' = Append(heap, constructor(options))
          /\ last' = [op |-> "new", ok |-> TRUE, id |-> Len(heap) + 1]
  /\ ops' = ops + 1
  /\ UNCHANGED <<calls, backendLog>>

text(id, t) ==
  /\ ops < MaxOps
  /\ heap' = [heap EXCEPT ![id].text = Some(t)]
  /\ ops' = ops + 1
  /\ last' = [op |-> "text", id |-> id]
  /\ UNCHANGED <<calls, backendLog>>

defaults(id, values) ==
  /\ ops < MaxOps
  /\ heap' = [heap EXCEPT ![id].defaults = values]
  /\ ops' = ops + 1
  /\ last' = [op |-> "defaults", id |-> id]
  /\ UNCHANGED <<calls, backendLog>>

\* this._schema is assigned before compile, which may throw
schema(id, s) ==
  /\ ops < MaxOps
  /\ heap' = IF AjvCompiles(s)
             THEN [heap EXCEPT ![id].schema = Some(s), ![id].validator = Some(s)]
             ELSE [heap EXCEPT ![id].schema = Some(s)]
  /\ ops' = ops + 1
  /\ last' = [op |-> "schema", id |-> id, ok |-> AjvCompiles(s), s |-> s,
              e |-> heap[id]]
  /\ UNCHANGED <<calls, backendLog>>

using(id, g) ==
  /\ ops < MaxOps
  /\ heap' = [heap EXCEPT ![id].generator = g]
  /\ ops' = ops + 1
  /\ last' = [op |-> "using", id |-> id]
  /\ UNCHANGED <<calls, backendLog>>

\* vars(v) written like the setters: this._vars = vars; return this
varsInPlace(id, v) ==
  /\ ops < MaxOps
  /\ heap' = [heap EXCEPT ![id].vars = Some(v)]
  /\ last' = [op |-> "vars", ok |-> TRUE, src |-> id, e |-> heap[id],
              v |-> v, dst |-> id]
  /\ ops' = ops + 1
  /\ UNCHANGED <<calls, backendLog>>

\* vars(v): a new PromptClass built from this.toJSON(), then _vars is set
vars(id, v) ==
  /\ ops < MaxOps
  /\ IF constructorThrows(toJSON(heap[id]))
     THEN /\ heap' = heap
          /\ last' = [op |-> "vars", ok |-> FALSE, src |-> id, e |-> heap[id]]
     ELSE /\ heap' = Append(heap, varsEngine(heap[id], v))
          /\ last' = [op |-> "vars", ok |-> TRUE, src |-> id, e |-> heap[id],
                      v |-> v, dst |-> Len(heap) + 1]
  /\ ops' = ops + 1
  /\ UNCHANGED <<calls, backendLog>>

\* PromptClass.fromJSON(heap[id].toJSON(), g)
fromJSON(id, g) ==
  /\ ops < MaxOps
  /\ IF constructorThrows(toJSON(heap[id]))
     THEN /\ heap' = heap
          /\ last' = [op |-> "fromJSON", ok |-> FALSE, src |-> id, e |-> heap[id]]
     ELSE /\ heap' = Append(heap, [constructor(toJSON(heap[id]))
                                     EXCEPT !.generator = g])
          /\ last' = [op |-> "fromJSON", ok |-> TRUE, src |-> id, e |-> heap[id],
                      dst |-> Len(heap) + 1]
  /\ ops' = ops + 1
  /\ UNCHANGED <<calls, backendLog>>

\* generate(arg) up to its await, or to the error it rejects with before it
generate(id, arg) ==
  /\ ops < MaxOps
  /\ LET r == generateStart(heap[id], arg)
         c == Len(calls) + 1
     IN  IF r.kind = "execute"
         THEN /\ calls' = Append(calls, [id |-> id, arg |-> arg, e |-> heap[id],
                                         pc |-> "await", prompt |-> Some(r.text),
                                         reply |-> None,
                                         outcome |-> [kind |-> "pending"]])
              /\ backendLog' = Append(backendLog,
                                      [generator |-> heap[id].generator,
                                       prompt |-> r.text, call |-> c,
                                       reply |-> None])
         ELSE /\ calls' = Append(calls, [id |-> id, arg |-> arg, e |-> heap[id],
                                         pc |-> "done", prompt |-> None,
                                         reply |-> None, outcome |-> r])
              /\ backendLog' = backendLog
  /\ ops' = ops + 1
  /\ last' = NoOp
  /\ UNCHANGED heap

\* the call of execute that generate call c awaits
Invocation(c) == CHOOSE i \in 1..Len(backendLog) : backendLog[i].call = c

\* execute resolves with generatedText, and every generate call that awaits
\* the engine of call c runs to its end with it
executeReturnsAll(c, generatedText) ==
  /\ calls[c].pc = "await"
  /\ calls' = [d \in 1..Len(calls) |->
                 IF calls[d].pc = "await" /\ calls[d].id = calls[c].id
                 THEN [calls[d] EXCEPT
                         !.pc = "done",
                         !.reply = Some([ok |-> TRUE, text |-> generatedText]),
                         !.outcome = generateResume(heap[calls[d].id], generatedText)]
                 ELSE calls[d]]
  /\ backendLog' = [backendLog EXCEPT ![Invocation(c)].reply =
                                        Some([ok |-> TRUE, text |-> generatedText])]
  /\ last' = NoOp
  /\ UNCHANGED <<heap, ops>>

\* execute resolves with generatedText; generate runs to its end
executeReturns(c, generatedText) ==
  /\ calls[c].pc = "await"
  /\ calls' = [calls EXCEPT
                 ![c].pc = "done",
                 ![c].reply = Some([ok |-> TRUE, text |-> generatedText]),
                 ![c].outcome = generateResume(heap[calls[c].id], generatedText)]
  /\ backendLog' = [backendLog EXCEPT ![Invocation(c)].reply =
                                        Some([ok |-> TRUE, text |-> generatedText])]
  /\ last' = NoOp
  /\ UNCHANGED <<heap, ops>>

\* execute rejects; generate rejects with the same error
executeThrows(c) ==
  /\ calls[c].pc = "await"
  /\ calls' = [calls EXCEPT
                 ![c].pc = "done",
                 ![c].reply = Some([ok |-> FALSE, text |-> "backend failed"]),
                 ![c].outcome = [kind |-> "BackendError", text |-> "backend failed"]]
  /\ backendLog' = [backendLog EXCEPT ![Invocation(c)].reply =
                                        Some([ok |-> FALSE, text |-> "backend failed"])]
  /\ last' = NoOp
  /\ UNCHANGED <<heap, ops>>

Next ==
  \/ \E o \in ApiOptions : create(o)
  \/ \E id \in Ids, t \in ApiTexts : text(id, t)
  \/ \E id \in Ids, d \in ApiBindings : defaults(id, d)
  \/ \E id \in Ids, s \in ApiSchemas : schema(id, s)
  \/ \E id \in Ids, g \in Generators : using(id, g)
  \/ \E id \in Ids, v \in ApiBindings : vars(id, v)
  \/ \E id \in Ids, g \in Generators : fromJSON(id, g)
  \/ \E id \in Ids : toString(id)
  \/ \E id \in Ids, arg \in Opt(ApiBindings) : generate(id, arg)
  \/ \E c \in 1..Len(calls), r \in Replies : executeReturns(c, r)
  \/ \E c \in 1..Len(calls) : executeThrows(c)

Spec == Init /\ [][Next]_state

(***************************************************************************)
(* Properties                                                              *)
(***************************************************************************)
Resolved == last.op = "resolve"

RECURSIVE Dedup(_)
Dedup(seq) ==
  IF seq = <<>> THEN <<>>
  ELSE LET init == Dedup(SubSeq(seq, 1, Len(seq) - 1))
           x == seq[Len(seq)]
       IN  IF \E i \in 1..Len(init) : init[i] = x THEN init ELSE Append(init, x)

\* the name inside a placeholder-shaped token
NameOf(tok) == CHOOSE n \in Names : MatchesKey(tok, n)

NamesOf(toks) == [i \in 1..Len(toks) |-> NameOf(toks[i])]

\* the names of the placeholders of the template, in order of appearance
TemplateNames(e) == NamesOf(MatchAll(TextOf(e)))

\* the placeholder names of the template the effective bindings do not bind,
\* each once, in order of first appearance
UnresolvedNames(e, varsArg) ==
  LET bound(n) == n \notin Keys(AllVars(e, varsArg))
  IN  Dedup(SelectSeq(TemplateNames(e), bound))

\* C1: when the template has a placeholder the effective bindings do not
\* bind, resolve fails with the Missing-binding error, and the error lists
\* exactly the unresolved names, each once, in order of first appearance.
C1_MissingListsEachNameOnce ==
  Resolved /\ UnresolvedNames(last.e, last.arg) # <<>> =>
    /\ last.res.kind = "MissingError"
    /\ NamesOf(last.res.unbound) = UnresolvedNames(last.e, last.arg)

\* C2: when the effective bindings bind every placeholder name of the
\* template, resolve succeeds and no placeholder-shaped token remains in the
\* substituted text, whatever the bound values are.
C2_CoveredTemplateResolves ==
  Resolved /\ UnresolvedNames(last.e, last.arg) = <<>> =>
    /\ last.res.kind = "text"
    /\ \A i \in 1..Len(last.res.prompt) : ~MatchesAny(last.res.prompt[i])

\* the layer the specification chooses: the explicit argument if supplied,
\* otherwise the pre-bound set if present, otherwise nothing
ChosenLayer(e, varsArg) ==
  IF varsArg # None THEN varsArg[1] ELSE IF e.vars # None THEN e.vars[1] ELSE <<>>

\* C3: the effective bindings are the defaults overridden entry by entry by
\* exactly one layer: the explicit argument if supplied, otherwise the
\* pre-bound set if present, otherwise nothing.
C3_EffectiveBindings ==
  Resolved =>
    LET layer == ChosenLayer(last.e, last.arg)
        eff == last.res.allVars
    IN  /\ Keys(eff) = Keys(last.e.defaults) \cup Keys(layer)
        /\ \A n \in Keys(eff) :
             Get(eff, n) = IF n \in Keys(layer) THEN Get(layer, n)
                           ELSE Get(last.e.defaults, n)

\* C3 witness: explicit variables override a default and hide the pre-bound
\* set, a default is used for a name the explicit variables leave out
C3_Witness ==
  /\ Resolved /\ last.arg # None /\ last.e.vars # None
  /\ last.arg # last.e.vars
  /\ Keys(last.e.vars[1]) \ (Keys(last.arg[1]) \cup Keys(last.e.defaults)) # {}
  /\ Keys(last.e.defaults) \ Keys(last.arg[1]) # {}
  /\ \E n \in Keys(last.e.defaults) \cap Keys(last.arg[1]) :
       Get(last.e.defaults, n) # Get(last.arg[1], n)
  /\ last.res.kind = "text"

\* the structural skeleton of a schema: a property maps to its type name, to
\* a nested skeleton for an object, to a one-element list for an array
RECURSIVE Skeleton(_)
Skeleton(s) ==
  CASE s.type = "object" ->
         JObj([i \in 1..Len(s.properties) |->
                 Entry(s.properties[i].k, Skeleton(s.properties[i].v))])
    [] s.type = "array" -> JArr(<<Skeleton(s.items)>>)
    [] OTHER -> JStr(s.type)

\* C10: with a schema, resolve returns the substituted template, the
\* directive naming the format, and the 2-space pretty-printed skeleton of
\* the schema, arrays mapped to a one-element list of the skeleton of their
\* items at every depth; without a schema nothing is appended.
C10_SchemaDirectiveAppended ==
  Resolved /\ last.res.kind = "text" =>
    last.res.text =
      IF last.e.schema = None THEN Concat(last.res.prompt)
      ELSE Concat(last.res.prompt)
             \o " Please provide a " \o last.e.format
             \o " response with the following structure:\n"
             \o stringifyIndent(Skeleton(last.e.schema[1]), "")

\* C4: in every reachable state the compiled validator of every engine is the
\* one compiled from its current schema: present exactly when a schema is,
\* never the validator of a schema that has been replaced.
C4_ValidatorMatchesSchema ==
  \A id \in Ids : heap[id].validator = heap[id].schema

\* C5: the engine vars(v) returns has the template, defaults, schema and
\* generator of the engine it was derived from, and v as its pre-bound
\* variables.
C5_DerivedKeepsConfiguration ==
  last.op = "vars" =>
    /\ last.ok
    /\ heap[last.dst].text = last.e.text
    /\ heap[last.dst].defaults = last.e.defaults
    /\ heap[last.dst].schema = last.e.schema
    /\ heap[last.dst].generator = last.e.generator
    /\ heap[last.dst].vars = Some(last.v)

SameResult(r1, r2) == r1.kind = r2.kind /\ r1.text = r2.text

\* C6: fromJSON(toJSON(engine), backend) resolves to the same result as the
\* engine, for every explicit variable set and for none.
C6_RoundTripResolvesAlike ==
  last.op = "fromJSON" =>
    /\ last.ok
    /\ \A v \in Opt(ApiBindings \cup {<<>>}) :
         SameResult(resolvePrompt(heap[last.dst], v), resolvePrompt(last.e, v))

CallIds == 1..Len(calls)

Invoked(c) == \E i \in 1..Len(backendLog) : backendLog[i].call = c

\* C7: generate() on an engine without a generator fails with the
\* no-generator error before anything else: no backend is invoked, and this
\* is the error also when the template has unbound placeholders.
C7_NoGeneratorFailsFirst ==
  \A c \in CallIds :
    calls[c].e.generator = NoGenerator =>
      /\ calls[c].pc = "done"
      /\ calls[c].outcome.kind = "NoGeneratorError"
      /\ ~Invoked(c)

\* C7 witness: generate() was called without a generator on a template whose
\* placeholder is unbound
C7_Witness ==
  \E c \in CallIds :
    /\ calls[c].e.generator = NoGenerator
    /\ resolvePrompt(calls[c].e, calls[c].arg).kind = "MissingError"
    /\ calls[c].pc = "done"

Replied(c) ==
  calls[c].pc = "done" /\ calls[c].reply # None /\ calls[c].reply[1].ok

\* C8: with a schema configured, a reply that does not decode as JSON makes
\* generate() fail with the decode error, not the validation error.
C8_UndecodableReplyIsDecodeFailure ==
  \A c \in CallIds :
    Replied(c) /\ calls[c].e.schema # None
      /\ ~JSONparse(calls[c].reply[1].text).ok =>
        calls[c].outcome.kind = "SyntaxError"

\* C9: with a schema configured, a reply that decodes to a value violating
\* the schema makes generate() fail with the validation error listing every
\* violated constraint; a value satisfying the schema is returned.
C9_ValidationListsEveryViolation ==
  \A c \in CallIds :
    Replied(c) /\ calls[c].e.schema # None
      /\ JSONparse(calls[c].reply[1].text).ok =>
        LET data == JSONparse(calls[c].reply[1].text).value
            violated == Violations(calls[c].e.schema[1], data)
        IN  IF violated # <<>>
            THEN /\ calls[c].outcome.kind = "InvalidDataError"
                 /\ calls[c].outcome.errors = violated
            ELSE /\ calls[c].outcome.kind = "value"
                 /\ calls[c].outcome.value = data

\* the expectation of the test "should generate a prompt"
TestShouldGenerateAPrompt ==
  /\ Resolved /\ last.arg = None
  /\ last.e.text = Some(<<"List ", "{{num}}", " books by ", "{{name}}", ".">>)
  /\ last.e.defaults = <<Entry("num", Num(3))>>
  /\ last.e.vars = Some(<<Entry("name", Str("George Orwell"))>>)
  /\ last.e.schema = Some(TArray(Book))
  => last.res.text = "List 3 books by George Orwell. Please provide a json response with the following structure:\n[\n  {\n    \"title\": \"string\",\n    \"year\": \"string\"\n  }\n]"

\* the placeholder names of the template that neither the defaults nor the
\* pre-bound variables bind
UnboundWithoutArgument(e) ==
  {n \in Names :
     /\ \E i \in 1..Len(TextOf(e)) : MatchesKey(TextOf(e)[i], n)
     /\ n \notin Keys(e.defaults)
     /\ e.vars # None => n \notin Keys(e.vars[1])}

\* C11: toString() fails with the Missing-binding error, whose message starts
\* with "Missing" and lists the placeholder, whenever the template holds a
\* placeholder that neither the defaults nor the pre-bound variables bind,
\* with or without a schema; no text is returned.
C11_ToStringReportsMissing ==
  Resolved /\ last.arg = None /\ UnboundWithoutArgument(last.e) # {} =>
    /\ last.res.kind = "MissingError"
    /\ last.res.text = "Missing template variables or default values: "
                         \o Join(last.res.unbound, ", ")
    /\ \A n \in UnboundWithoutArgument(last.e) :
         \E i \in 1..Len(last.res.unbound) : MatchesKey(last.res.unbound[i], n)

\* C11 witness: toString() on an engine with a schema whose template has a
\* placeholder the defaults bind and one that nothing binds
C11_Witness ==
  /\ Resolved /\ last.arg = None
  /\ last.e.schema # None
  /\ UnboundWithoutArgument(last.e) = {"name"}
  /\ "num" \in Keys(last.e.defaults)
  /\ last.res.kind = "MissingError"

Setters == {"text", "defaults", "schema", "using"}

\* C12: vars(v) leaves the engine it is called on as it was, and afterwards
\* the original and the derived engine are separate: an engine (its template,
\* defaults, schema, pre-bound variables and generator, and so what it
\* resolves to) changes only by a setter called on that very engine.
C12_VarsLeavesOriginalAlone ==
  [][\A id \in Ids :
       heap'[id] # heap[id] => last'.op \in Setters /\ last'.id = id]_state

\* C12 witness: engine 2 was derived by vars() from engine 1 and its template
\* was then replaced, so that the two engines differ in their template
C12_Witness ==
  /\ Len(heap) >= 2
  /\ heap[1].vars = None /\ heap[2].vars # None
  /\ last.op = "text" /\ last.id = 2
  /\ heap[1].text # heap[2].text

\* C13: schema(s) called on an engine changes nothing for a holder of a
\* reference to that engine: what the engine resolves to and the validator it
\* checks replies with are as before the call.
C13_SchemaLeavesEngineAlone ==
  last.op = "schema" =>
    /\ SameResult(resolvePrompt(heap[last.id], None), resolvePrompt(last.e, None))
    /\ heap[last.id].validator = last.e.validator

Invocations(c) == {i \in 1..Len(backendLog) : backendLog[i].call = c}

BackendFailed(c) ==
  calls[c].pc = "done" /\ calls[c].reply # None /\ ~calls[c].reply[1].ok

\* C14: a generate() call invokes the backend at most once, only after the
\* template has resolved, with the text resolve returns for the same
\* variables; when resolution fails the backend is not invoked; when the
\* backend fails generate() fails with that error, after the one invocation.
C14_OneInvocationWithResolvedText ==
  \A c \in CallIds :
    LET r == resolvePrompt(calls[c].e, calls[c].arg)
    IN  /\ Cardinality(Invocations(c)) <= 1
        /\ \A i \in Invocations(c) :
             /\ r.kind = "text"
             /\ backendLog[i].prompt = r.text
             /\ backendLog[i].generator = calls[c].e.generator
        /\ calls[c].e.generator # NoGenerator /\ r.kind = "MissingError" =>
             /\ Invocations(c) = {}
             /\ calls[c].pc = "done"
             /\ calls[c].outcome = [kind |-> "MissingError", text |-> r.text]
        /\ BackendFailed(c) =>
             /\ Cardinality(Invocations(c)) = 1
             /\ calls[c].outcome =
                  [kind |-> "BackendError", text |-> calls[c].reply[1].text]

\* C14 witness: one call failed to resolve on an engine with a generator,
\* another call was sent to the backend, which failed
C14_Witness ==
  \E c, d \in CallIds :
    /\ calls[c].e.generator # NoGenerator
    /\ calls[c].outcome.kind = "MissingError"
    /\ BackendFailed(d)

\* what generate returns for a reply of the backend, on engine e
OutcomeOf(e, reply) ==
  IF reply.ok THEN generateResume(e, reply.text)
  ELSE [kind |-> "BackendError", text |-> reply.text]

Unchanged(c) == heap[calls[c].id] = calls[c].e

CallsIndependent ==
  \A c \in CallIds :
    Unchanged(c) /\ Invoked(c) =>
      LET inv == backendLog[Invocation(c)]
      IN  /\ inv.prompt = resolvePrompt(calls[c].e, calls[c].arg).text
          /\ inv.reply = None => calls[c].pc = "await"
          /\ inv.reply # None =>
               /\ calls[c].pc = "done"
               /\ calls[c].outcome = OutcomeOf(calls[c].e, inv.reply[1])

\* C15: generate() calls on one engine whose configuration is not changed
\* meanwhile are independent, in whatever order the backend replies: each
\* sends the text resolved from its own variables, and ends with the outcome
\* of the reply to its own invocation, not before it; no step of a generate()
\* call changes an engine.
C15_ConcurrentCallsIndependent ==
  /\ []CallsIndependent
  /\ [][calls' # calls => heap' = heap]_state

\* C15 witness: two calls on the same unchanged engine with different
\* variables; the later one has its reply while the earlier one still waits
C15_Witness ==
  \E c, d \in CallIds :
    /\ c < d /\ calls[c].id = calls[d].id
    /\ Unchanged(c) /\ Unchanged(d)
    /\ calls[c].arg # calls[d].arg /\ calls[c].prompt # calls[d].prompt
    /\ calls[c].pc = "await"
    /\ calls[d].pc = "done" /\ calls[d].outcome.kind = "SyntaxError"

\* C16: a generate() call checks the reply against the schema and with the
\* validator in effect when its prompt was resolved, also when schema() is
\* called on the engine while the backend call is awaited.
C16_ReplyCheckedAgainstSentSchema ==
  \A c \in CallIds :
    Replied(c) => calls[c].outcome = generateResume(calls[c].e, calls[c].reply[1].text)

====
